---- MODULE Spec2Model ----
(***************************************************************************)
(* Model of the climate-alert pipeline of src/main.py: main() fetches a    *)
(* series of risk records, extracts the two columns, fits a least-squares  *)
(* line over the record positions, predicts the next value and posts an    *)
(* alert.  Every function of the source is an operator returning the       *)
(* function's result together with its effects (lines printed, outbound    *)
(* requests issued, exception that escaped); every stage of main() is an   *)
(* action.  Floating point values are modelled as exact rationals.         *)
(***************************************************************************)
EXTENDS Integers, Sequences, FiniteSets

VARIABLES pc, response, raw_data, dates, risk_factors, model, forecast,
          notifyResponse, out, calls, gets, posts

vars == <<pc, response, raw_data, dates, risk_factors, model, forecast,
          notifyResponse, out, calls, gets, posts>>

(* ------------------------------ bounds --------------------------------- *)
MaxLen == 3       \* longest record array the provider returns
MaxRisk == 3      \* risk_factor numbers are 0..MaxRisk
MaxDate == 2      \* date ordinals are 1..MaxDate

(* --------------------------- program constants ------------------------- *)
API_ENDPOINT == "https://api.mockclimate.com/v1/getdata"
NOTIFICATION_ENDPOINT == "https://api.mocknotifications.com/send"
location == "New York"

MsgFetching == "Fetching climate data for New York..."
MsgFetchHttp == "HTTP error occurred"
MsgFetchOther == "Other error occurred"
MsgProcessing == "Processing data..."
MsgMissingField == "Missing expected data field"
MsgProcessError == "Error processing data"
MsgTraining == "Training model..."
MsgTrainError == "Error during model training"
MsgForecast == "Forecasted risk for next date"
MsgSending == "Sending notification..."
MsgSent == "Notification sent successfully!"
MsgNotifyHttp == "HTTP error during notification"
MsgNotifyOther == "Other error occurred during notification"
MsgFetchFailed == "Failed to fetch climate data."
MsgProcessFailed == "Data processing failed."
MsgTrainFailed == "Model training failed."

(* ------------------------------ values --------------------------------- *)
None == [tag |-> "None"]
Array(s) == [tag |-> "array", items |-> s]
Object(k) == [tag |-> "object", nkeys |-> k]
Malformed == [tag |-> "malformed"]
NDArray(s) == [tag |-> "ndarray", items |-> s]

Num(k) == [type |-> "number", v |-> k]
Str == [type |-> "string", v |-> 0]
Null == [type |-> "null", v |-> 0]

DateVals == {Num(d) : d \in 1..MaxDate}
RiskVals == {Num(r) : r \in 0..MaxRisk} \cup {Str}

\* the records the provider may send: complete, or lacking either field or both
Entries ==
    {[date |-> d, risk_factor |-> r] : d \in DateVals, r \in RiskVals}
    \cup {[date |-> d] : d \in DateVals}
    \cup {[risk_factor |-> r] : r \in RiskVals}
    \cup {[id |-> Num(0)]}

SeqsUpTo(S, n) == UNION {[1..k -> S] : k \in 0..n}

Bodies == {Array(s) : s \in SeqsUpTo(Entries, MaxLen)} \cup {Object(0), Object(1)}

GetResponses ==
    {[exc |-> "ConnectionError"]}
    \cup {[status |-> 200, body |-> b] : b \in Bodies \cup {Malformed}}
    \cup {[status |-> 404, body |-> b] : b \in {Malformed, Object(1)}}

PostResponses == {[exc |-> "ConnectionError"], [status |-> 200], [status |-> 500]}

(* --------------------------- exceptions -------------------------------- *)
\* the classes an exception is an instance of
Bases(exc) ==
    CASE exc = "HTTPError" -> {"HTTPError", "RequestException", "Exception"}
      [] exc = "ConnectionError" -> {"ConnectionError", "RequestException", "Exception"}
      [] exc = "JSONDecodeError" -> {"JSONDecodeError", "RequestException", "Exception"}
      [] OTHER -> {exc, "Exception"}

\* index of the first except clause that catches exc, 0 when none does
RECURSIVE Handler(_, _, _)
Handler(exc, handlers, i) ==
    IF i > Len(handlers) THEN 0
    ELSE IF handlers[i] \in Bases(exc) THEN i
    ELSE Handler(exc, handlers, i + 1)

FetchHandlers == <<"HTTPError", "Exception">>
ProcessHandlers == <<"KeyError", "Exception">>
TrainHandlers == <<"Exception">>
NotifyHandlersNarrow == <<"HTTPError">>
NotifyHandlers == <<"HTTPError", "Exception">>

\* response.raise_for_status()
StatusNeverRaises(status) == FALSE
StatusRaises(status) == status \notin 200..299

\* bool(v) as the if statements of main evaluate it
Truthy(v) ==
    CASE v.tag = "None" -> FALSE
      [] v.tag = "array" -> Len(v.items) > 0
      [] v.tag = "object" -> v.nkeys > 0
      [] OTHER -> TRUE

(* ------------------------- fetch_climate_data -------------------------- *)
FetchRaised(resp) ==
    IF "exc" \in DOMAIN resp THEN resp.exc
    ELSE IF StatusRaises(resp.status) THEN "HTTPError"
    ELSE IF resp.body = Malformed THEN "JSONDecodeError"
    ELSE "none"

\* line 25: the GET requests issued for one fetch
GetRequests(loc, resp) == <<[url |-> API_ENDPOINT, params |-> loc]>>

fetch_climate_data(loc, resp) ==
    LET exc == FetchRaised(resp)
        h == Handler(exc, FetchHandlers, 1)
    IN  IF exc = "none"
        THEN [value |-> resp.body, out |-> <<>>, requests |-> GetRequests(loc, resp),
              raised |-> "none"]
        ELSE [value |-> None,
              out |-> IF h = 1 THEN <<MsgFetchHttp>>
                      ELSE IF h = 2 THEN <<MsgFetchOther>> ELSE <<>>,
              requests |-> GetRequests(loc, resp),
              raised |-> IF h = 0 THEN exc ELSE "none"]

(* ----------------------------- process_data ---------------------------- *)
\* entry[key]: KeyError when the record has no such field
SubscriptGet(entry, key) ==
    IF key \in DOMAIN entry THEN [exc |-> "none", value |-> entry[key]]
    ELSE [exc |-> "none", value |-> Null]
Subscript(entry, key) ==
    IF key \in DOMAIN entry THEN [exc |-> "none", value |-> entry[key]]
    ELSE [exc |-> "KeyError", value |-> Null]

\* the for loop of lines 42-44; ds and rs are the two lists built so far
RECURSIVE ExtractLoop(_, _, _, _)
ExtractLoop(items, i, ds, rs) ==
    IF i > Len(items) THEN [exc |-> "none", ds |-> ds, rs |-> rs]
    ELSE LET d == Subscript(items[i], "date")
         IN  IF d.exc # "none" THEN [exc |-> d.exc, ds |-> ds, rs |-> rs]
             ELSE LET ds1 == Append(ds, d.value)
                      r == Subscript(items[i], "risk_factor")
                  IN  IF r.exc # "none" THEN [exc |-> r.exc, ds |-> ds1, rs |-> rs]
                      ELSE ExtractLoop(items, i + 1, ds1, Append(rs, r.value))

\* iterating raw_data: None is not iterable, an object yields its keys
\* (strings, which cannot be indexed by 'date'), an array yields its records
Extract(raw) ==
    CASE raw.tag = "array" -> ExtractLoop(raw.items, 1, <<>>, <<>>)
      [] raw.tag = "object" /\ raw.nkeys = 0 -> [exc |-> "none", ds |-> <<>>, rs |-> <<>>]
      [] OTHER -> [exc |-> "TypeError", ds |-> <<>>, rs |-> <<>>]

\* line 50: what reaches the caller once an exception was caught
ProcessFailureResultPartial(ds, rs) == <<NDArray(ds), NDArray(rs)>>
ProcessFailureResult(ds, rs) == <<None, None>>

process_data(raw) ==
    LET e == Extract(raw)
        h == Handler(e.exc, ProcessHandlers, 1)
        f == ProcessFailureResult(e.ds, e.rs)
    IN  IF e.exc = "none"
        THEN [dates |-> NDArray(e.ds), risk_factors |-> NDArray(e.rs),
              out |-> <<>>, raised |-> "none"]
        ELSE IF h = 0
        THEN [dates |-> None, risk_factors |-> None, out |-> <<>>, raised |-> e.exc]
        ELSE [dates |-> f[1], risk_factors |-> f[2],
              out |-> IF h = 1 THEN <<MsgMissingField>> ELSE <<MsgProcessError>>,
              raised |-> "none"]

\* line 87
ProcessedOkAlways(d, r) == TRUE
ProcessedOk(d, r) == d # None /\ r # None

(* ------------------------------ rationals ------------------------------ *)
Abs(a) == IF a < 0 THEN -a ELSE a

RECURSIVE GCD(_, _)
GCD(a, b) == IF b = 0 THEN a ELSE GCD(b, a % b)

\* p/q in lowest terms with a positive denominator (q # 0)
Rat(p, q) ==
    LET g == GCD(Abs(p), Abs(q))
        s == IF q < 0 THEN -1 ELSE 1
    IN  [tag |-> "float", num |-> (s * p) \div g, den |-> (s * q) \div g]

RatAdd(x, y) == Rat(x.num * y.den + y.num * x.den, x.den * y.den)
RatMulInt(x, k) == Rat(x.num * k, x.den)

RECURSIVE SumSeq(_, _)
SumSeq(s, i) == IF i > Len(s) THEN 0 ELSE s[i] + SumSeq(s, i + 1)

(* ------------------------------ train_model ---------------------------- *)
\* line 58: X = np.arange(len(dates))
DesignMatrixFromDates(d) == [i \in 1..Len(d.items) |-> d.items[i].v]
DesignMatrix(d) == [i \in 1..Len(d.items) |-> i - 1]

\* LinearRegression.fit rejects y that is None, empty, of another length
\* than X, or not numeric
FitRaisesBelowTwo(X, y) ==
    \/ y.tag = "None"
    \/ Len(X) < 2
    \/ Len(y.items) # Len(X)
    \/ \E i \in 1..Len(y.items) : y.items[i].type # "number"
FitRaises(X, y) ==
    \/ y.tag = "None"
    \/ Len(X) = 0
    \/ Len(y.items) # Len(X)
    \/ \E i \in 1..Len(y.items) : y.items[i].type # "number"

\* ordinary least squares of y on X with an intercept; the minimum-norm
\* solution (slope 0) when all X are equal
Fit(X, y) ==
    LET n == Len(X)
        Y == [i \in 1..n |-> y.items[i].v]
        Sx == SumSeq(X, 1)
        Sy == SumSeq(Y, 1)
        Sxy == SumSeq([i \in 1..n |-> X[i] * Y[i]], 1)
        Sxx == SumSeq([i \in 1..n |-> X[i] * X[i]], 1)
        N == n * Sxy - Sx * Sy
        D == n * Sxx - Sx * Sx
    IN  IF D = 0
        THEN [tag |-> "LinearRegression", coef |-> Rat(0, 1), intercept |-> Rat(Sy, n)]
        ELSE [tag |-> "LinearRegression", coef |-> Rat(N, D),
              intercept |-> Rat(Sy * D - N * Sx, n * D)]

train_model(d, r) ==
    LET exc == IF d.tag = "None" THEN "TypeError"
               ELSE IF FitRaises(DesignMatrix(d), r) THEN "ValueError"
               ELSE "none"
        h == Handler(exc, TrainHandlers, 1)
    IN  IF exc = "none"
        THEN [model |-> Fit(DesignMatrix(d), r), out |-> <<>>, raised |-> "none"]
        ELSE [model |-> None,
              out |-> IF h = 1 THEN <<MsgTrainError>> ELSE <<>>,
              raised |-> IF h = 0 THEN exc ELSE "none"]

\* model.predict([[p]])[0]
predict(m, p) == RatAdd(m.intercept, RatMulInt(m.coef, p))

\* line 93: next_date = len(dates)
NextPosition(d) == Len(d.items)

(* --------------------------- send_notification ------------------------- *)
NotifyRaised(resp) ==
    IF "exc" \in DOMAIN resp THEN resp.exc
    ELSE IF StatusRaises(resp.status) THEN "HTTPError"
    ELSE "none"

\* line 70: the POST requests issued for one notification
PostRequestsRetry(msg, resp) ==
    IF NotifyRaised(resp) = "none"
    THEN <<[url |-> NOTIFICATION_ENDPOINT, json |-> msg]>>
    ELSE <<[url |-> NOTIFICATION_ENDPOINT, json |-> msg],
           [url |-> NOTIFICATION_ENDPOINT, json |-> msg]>>
PostRequests(msg, resp) == <<[url |-> NOTIFICATION_ENDPOINT, json |-> msg]>>

send_notification(loc, fc, resp) ==
    LET message == [location |-> loc, forecast |-> fc]
        exc == NotifyRaised(resp)
        h == Handler(exc, NotifyHandlers, 1)
    IN  [out |-> IF exc = "none" THEN <<MsgSent>>
                 ELSE IF h = 1 THEN <<MsgNotifyHttp>>
                 ELSE IF h = 2 THEN <<MsgNotifyOther>> ELSE <<>>,
         requests |-> PostRequests(message, resp),
         raised |-> IF exc # "none" /\ h = 0 THEN exc ELSE "none"]

(* ----------------------------- state ----------------------------------- *)
Init ==
    /\ pc = "start"
    /\ response = None
    /\ raw_data = None
    /\ dates = None
    /\ risk_factors = None
    /\ model = None
    /\ forecast = None
    /\ notifyResponse = None
    /\ out = <<>>
    /\ calls = <<>>
    /\ gets = <<>>
    /\ posts = <<>>

\* main, lines 79-81
Fetch ==
    /\ pc = "start"
    /\ \E resp \in GetResponses :
         LET r == fetch_climate_data(location, resp)
         IN  /\ response' = resp
             /\ raw_data' = r.value
             /\ out' = out \o <<MsgFetching>> \o r.out
             /\ gets' = gets \o r.requests
             /\ calls' = Append(calls, "fetch")
             /\ pc' = IF r.raised = "none" THEN "fetched" ELSE "crashed"
    /\ UNCHANGED <<dates, risk_factors, model, forecast, notifyResponse, posts>>

\* main, lines 83-85
Process ==
    /\ pc = "fetched"
    /\ Truthy(raw_data)
    /\ LET r == process_data(raw_data)
       IN  /\ dates' = r.dates
           /\ risk_factors' = r.risk_factors
           /\ out' = out \o <<MsgProcessing>> \o r.out
           /\ calls' = Append(calls, "process")
           /\ pc' = IF r.raised = "none" THEN "processed" ELSE "crashed"
    /\ UNCHANGED <<response, raw_data, model, forecast, notifyResponse, gets, posts>>

\* main, lines 103-104
FetchFailed ==
    /\ pc = "fetched"
    /\ ~Truthy(raw_data)
    /\ out' = Append(out, MsgFetchFailed)
    /\ pc' = "done"
    /\ UNCHANGED <<response, raw_data, dates, risk_factors, model, forecast,
                   notifyResponse, calls, gets, posts>>

\* main, lines 87-89
Train ==
    /\ pc = "processed"
    /\ ProcessedOk(dates, risk_factors)
    /\ LET r == train_model(dates, risk_factors)
       IN  /\ model' = r.model
           /\ out' = out \o <<MsgTraining>> \o r.out
           /\ calls' = Append(calls, "train")
           /\ pc' = IF r.raised = "none" THEN "trained" ELSE "crashed"
    /\ UNCHANGED <<response, raw_data, dates, risk_factors, forecast,
                   notifyResponse, gets, posts>>

\* main, lines 101-102
ProcessFailed ==
    /\ pc = "processed"
    /\ ~ProcessedOk(dates, risk_factors)
    /\ out' = Append(out, MsgProcessFailed)
    /\ pc' = "done"
    /\ UNCHANGED <<response, raw_data, dates, risk_factors, model, forecast,
                   notifyResponse, calls, gets, posts>>

\* main, lines 91-95
Predict ==
    /\ pc = "trained"
    /\ Truthy(model)
    /\ forecast' = predict(model, NextPosition(dates))
    /\ out' = Append(out, MsgForecast)
    /\ calls' = Append(calls, "predict")
    /\ pc' = "predicted"
    /\ UNCHANGED <<response, raw_data, dates, risk_factors, model,
                   notifyResponse, gets, posts>>

\* main, lines 99-100
TrainFailed ==
    /\ pc = "trained"
    /\ ~Truthy(model)
    /\ out' = Append(out, MsgTrainFailed)
    /\ pc' = "done"
    /\ UNCHANGED <<response, raw_data, dates, risk_factors, model, forecast,
                   notifyResponse, calls, gets, posts>>

\* main, lines 97-98
Notify ==
    /\ pc = "predicted"
    /\ \E resp \in PostResponses :
         LET r == send_notification(location, forecast, resp)
         IN  /\ notifyResponse' = resp
             /\ out' = out \o <<MsgSending>> \o r.out
             /\ posts' = posts \o r.requests
             /\ calls' = Append(calls, "notify")
             /\ pc' = IF r.raised = "none" THEN "done" ELSE "crashed"
    /\ UNCHANGED <<response, raw_data, dates, risk_factors, model, forecast, gets>>

Next ==
    \/ Fetch
    \/ Process
    \/ FetchFailed
    \/ Train
    \/ ProcessFailed
    \/ Predict
    \/ TrainFailed
    \/ Notify

Spec == Init /\ [][Next]_vars

(* ------------------------- properties of the pipeline ------------------ *)
Order == <<"fetch", "process", "train", "predict", "notify">>
FailureMsgs == {MsgFetchFailed, MsgProcessFailed, MsgTrainFailed}
Printed == {out[i] : i \in 1..Len(out)}
Called == {calls[i] : i \in 1..Len(calls)}

\* the GET request was answered by a transport error, a non-2xx status or a
\* body that is not JSON
GetFailed ==
    /\ pc # "start"
    /\ \/ "exc" \in DOMAIN response
       \/ response.status \notin 200..299
       \/ response.body = Malformed

\* the POST request was answered by a transport error or a non-2xx status
PostFailed ==
    /\ "notify" \in Called
    /\ \/ "exc" \in DOMAIN notifyResponse
       \/ notifyResponse.status \notin 200..299

Defective(e) == "date" \notin DOMAIN e \/ "risk_factor" \notin DOMAIN e
WellFormed(e) == ~Defective(e) /\ e.risk_factor.type = "number"
IsRecords == raw_data.tag = "array" /\ Len(raw_data.items) > 0

\* C1: once the fetch has failed, no later stage is ever invoked and the run
\* ends right after main prints 'Failed to fetch climate data.'
C1_FetchFailureAborts ==
    GetFailed =>
        /\ raw_data = None
        /\ calls = <<"fetch">>
        /\ posts = <<>>
        /\ pc \in {"fetched", "done"}
        /\ pc = "done" => /\ out[Len(out)] = MsgFetchFailed
                          /\ Printed \cap FailureMsgs = {MsgFetchFailed}

C1_Witness ==
    /\ pc = "done"
    /\ GetFailed
    /\ "status" \in DOMAIN response
    /\ response.status = 404
    /\ response.body # Malformed

\* C2: a record sequence with a record lacking 'date' or 'risk_factor' makes
\* process_data return (None, None), and train, predict and notify are never
\* invoked, wherever the defective record stands
C2_MissingFieldAborts ==
    (/\ IsRecords
     /\ \E i \in 1..Len(raw_data.items) : Defective(raw_data.items[i])
     /\ pc \notin {"start", "fetched"}) =>
        /\ dates = None
        /\ risk_factors = None
        /\ model = None
        /\ calls = <<"fetch", "process">>
        /\ posts = <<>>
        /\ pc \in {"processed", "done"}

C2_Witness ==
    /\ pc = "done"
    /\ IsRecords
    /\ Len(raw_data.items) = 3
    /\ WellFormed(raw_data.items[1])
    /\ WellFormed(raw_data.items[2])
    /\ DOMAIN raw_data.items[3] = {"date"}
    /\ MsgProcessFailed \in Printed

\* how far main has got
Rank(p) ==
    CASE p = "start" -> 0
      [] p = "fetched" -> 1
      [] p = "processed" -> 2
      [] p = "trained" -> 3
      [] p = "predicted" -> 4
      [] OTHER -> 5

\* C3: no exception escapes main and every run reaches its normal end: main
\* is never stuck before its end, every step takes it further, and a failed
\* notification is trapped by send_notification and followed by the normal end
C3_TerminatesNormally ==
    /\ [](pc # "crashed")
    /\ [](pc # "done" => ENABLED Next)
    /\ [](PostFailed => pc = "done")
    /\ [][Rank(pc') > Rank(pc)]_vars

C3_Witness ==
    /\ pc = "done"
    /\ PostFailed
    /\ "exc" \in DOMAIN notifyResponse
    /\ MsgNotifyOther \in Printed

\* C4: the stages run in the order fetch, process, train, predict, notify,
\* each only after every earlier one succeeded; a POST is issued only when
\* all four earlier stages succeeded
C4_StageOrder ==
    /\ Len(calls) <= Len(Order)
    /\ calls = SubSeq(Order, 1, Len(calls))
    /\ Len(calls) >= 2 => ~GetFailed /\ raw_data # None
    /\ Len(calls) >= 3 => dates # None /\ risk_factors # None
    /\ Len(calls) >= 4 => model # None
    /\ Len(calls) >= 5 => forecast # None
    /\ posts # <<>> => calls = Order

C4_Witness ==
    /\ pc = "done"
    /\ calls = Order
    /\ Len(posts) = 1

\* C5: a fetch answered with a 2xx status and a well-formed body is treated
\* as successful: process_data runs on the body and 'Failed to fetch climate
\* data.' is not printed, also for an empty record array
C5_FetchSuccessIsProcessed ==
    (pc \notin {"start", "fetched"} /\ ~GetFailed) =>
        /\ MsgFetchFailed \notin Printed
        /\ "process" \in Called

\* C6: at most one GET and at most one POST per run; after a failed
\* notification the run is over with exactly one request of each kind
C6_SingleAttempt ==
    /\ Len(gets) <= 1
    /\ Len(posts) <= 1
    /\ pc # "start" => Len(gets) = 1
    /\ PostFailed => pc = "done" /\ Len(posts) = 1 /\ Len(gets) = 1

C6_Witness ==
    /\ pc = "done"
    /\ PostFailed
    /\ "status" \in DOMAIN notifyResponse
    /\ Len(posts) = 1

\* the fetched records are well formed and their risk is a + b * position
IsLinear(a, b) ==
    /\ IsRecords
    /\ Len(raw_data.items) >= 2
    /\ \A i \in 1..Len(raw_data.items) :
         /\ WellFormed(raw_data.items[i])
         /\ raw_data.items[i].risk_factor.v = a + b * (i - 1)

\* C7: for n >= 2 records with risk a + b*i at position i (0-based), the
\* fit has slope b and intercept a whatever the dates are, and the forecast
\* is a + b*n
C7_LinearForecast ==
    \A a \in 0..MaxRisk, b \in (0 - MaxRisk)..MaxRisk :
        (IsLinear(a, b) /\ pc \in {"trained", "predicted", "done"}) =>
            /\ model # None
            /\ model.coef = [tag |-> "float", num |-> b, den |-> 1]
            /\ model.intercept = [tag |-> "float", num |-> a, den |-> 1]
            /\ pc # "trained" =>
                 forecast = [tag |-> "float", num |-> a + b * Len(raw_data.items),
                             den |-> 1]

C7_Witness ==
    /\ pc = "predicted"
    /\ IsLinear(1, 1)
    /\ Len(raw_data.items) = 3
    /\ raw_data.items[1].date.v = 2
    /\ raw_data.items[2].date.v = 2
    /\ forecast = [tag |-> "float", num |-> 4, den |-> 1]

\* a stage was invoked and returned its failure sentinel
FetchSentinel == "fetch" \in Called /\ raw_data = None
ProcessSentinel == "process" \in Called /\ (dates = None \/ risk_factors = None)
TrainSentinel == "train" \in Called /\ model = None

\* C8: a run that ends before the notification printed exactly one of the
\* three failure messages, the one of the first stage that returned its
\* sentinel; a run in which fetch, process and train succeed prints none
C8_OneFailureMessage ==
    /\ (pc = "done" /\ "notify" \notin Called) =>
          Printed \cap FailureMsgs =
              IF FetchSentinel THEN {MsgFetchFailed}
              ELSE IF ProcessSentinel THEN {MsgProcessFailed}
              ELSE IF TrainSentinel THEN {MsgTrainFailed}
              ELSE {}
    /\ (pc # "start" /\ ~FetchSentinel /\ ~ProcessSentinel /\ ~TrainSentinel) =>
          Printed \cap FailureMsgs = {}

\* C9: on success process_data returns two sequences of the length of the
\* input, the i-th risk value being the i-th record's risk_factor; on
\* failure both returned components are None, never a partial list
C9_AlignedOrNone ==
    "process" \in Called =>
        IF raw_data.tag = "array"
           /\ \A i \in 1..Len(raw_data.items) : ~Defective(raw_data.items[i])
        THEN /\ dates # None /\ risk_factors # None
             /\ Len(dates.items) = Len(raw_data.items)
             /\ Len(risk_factors.items) = Len(raw_data.items)
             /\ \A i \in 1..Len(raw_data.items) :
                  /\ risk_factors.items[i] = raw_data.items[i].risk_factor
                  /\ dates.items[i] = raw_data.items[i].date
        ELSE dates = None /\ risk_factors = None

\* a failure at a record that has a date but no risk_factor, when the
\* internal date list is one longer than the risk list
C9_Witness ==
    /\ pc = "processed"
    /\ IsRecords
    /\ Len(Extract(raw_data).ds) = 2
    /\ Len(Extract(raw_data).rs) = 1
    /\ dates = None
    /\ risk_factors = None

IsSingle == IsRecords /\ Len(raw_data.items) = 1 /\ WellFormed(raw_data.items[1])

\* C10: a response of exactly one well-formed record passes processing and
\* training, never prints 'Model training failed.', and ends with predict(1)
\* and one notification request
C10_SingleRecordProceeds ==
    IsSingle =>
        /\ MsgTrainFailed \notin Printed
        /\ MsgProcessFailed \notin Printed
        /\ "process" \in Called => dates # None /\ risk_factors # None
        /\ "train" \in Called => model # None
        /\ "predict" \in Called =>
             /\ NextPosition(dates) = 1
             /\ forecast = predict(model, 1)
        /\ pc = "done" => calls = Order /\ Len(posts) = 1

C10_Witness ==
    /\ pc = "done"
    /\ IsSingle
    /\ Len(posts) = 1
    /\ forecast = [tag |-> "float", num |-> 2, den |-> 1]
====
